---- MODULE Spec2Model ----
(***************************************************************************)
(* Model of marketing.py: a linear exploratory-data-analysis script over   *)
(* the bank marketing table.  The script loads bank-additional-full.csv,   *)
(* inspects it (removing exact duplicate rows), recodes the columns        *)
(* poutcome and y, shows seven figures and prints five summary statements. *)
(*                                                                         *)
(* The table is a sequence of rows; a row carries the columns the script   *)
(* recodes (poutcome, y) and one column it never writes (age).  A cell of  *)
(* column y is a tagged value, because the script turns it from a string   *)
(* into a number or into the missing marker (NaN).                         *)
(***************************************************************************)
EXTENDS Integers, Sequences, FiniteSets, TLC

VARIABLES fileExists, fileRows, pc, df, out, mutations, shown, exitStatus

vars == <<fileExists, fileRows, pc, df, out, mutations, shown, exitStatus>>

(***************************************************************************)
(* Bounds of the model.                                                    *)
(***************************************************************************)
MaxRows == 3

(***************************************************************************)
(* Cell values.                                                            *)
(***************************************************************************)
Str(s) == [kind |-> "str", s |-> s, n |-> 0]

Num(n) == [kind |-> "num", s |-> "", n |-> n]

NaN == [kind |-> "nan", s |-> "", n |-> 0]

Ages == {41}

Poutcomes == {"nonexistent", "no_previous_campaign", "success"}

YValues == {Str("yes"), Str("no"), Str("unknown")}

Rows == [age : Ages, poutcome : Poutcomes, y : YValues]

RECURSIVE SeqsUpTo(_, _)
SeqsUpTo(S, n) ==
  IF n = 0 THEN {<<>>}
  ELSE LET shorter == SeqsUpTo(S, n - 1)
       IN  shorter \cup {Append(t, r) : t \in {u \in shorter : Len(u) = n - 1}, r \in S}

Tables == SeqsUpTo(Rows, MaxRows) \ {<<>>}

(***************************************************************************)
(* Output: printed lines and shown figures, in the order they are emitted. *)
(***************************************************************************)
Emit(text, args) == [kind |-> "print", text |-> text, args |-> args]

Figure(title, plot) == [kind |-> "figure", text |-> title, args |-> plot]

IsFigure(o) == o.kind = "figure"

Figures(o) == SelectSeq(o, IsFigure)

ExitDefault == 0

ExitUncaught == 1

ExitNormal == 0

(***************************************************************************)
(* Part 1: the loader.  read_csv either yields the table or raises         *)
(* FileNotFoundError, which is caught: two lines are printed and exit()    *)
(* ends the process with the default status.                               *)
(***************************************************************************)
MissingFileLines ==
  << Emit("Error: The 'bank-additional-full.csv' file was not found. Please download the dataset from the UCI Machine Learning Repository and place it in the same directory.", <<>>),
     Emit("Link: https://archive.ics.uci.edu/ml/machine-learning-databases/00222/bank-additional.zip", <<>>) >>

LoadNoExit ==
  /\ pc = "load"
  /\ IF fileExists
       THEN /\ df' = fileRows
            /\ out' = Append(out, Emit("Dataset loaded successfully! Let's get started with EDA.", <<>>))
       ELSE /\ df' = df
            /\ out' = out \o MissingFileLines
  /\ pc' = "inspect"
  /\ UNCHANGED <<fileExists, fileRows, mutations, shown, exitStatus>>

Load ==
  /\ pc = "load"
  /\ IF fileExists
       THEN /\ df' = fileRows
            /\ out' = Append(out, Emit("Dataset loaded successfully! Let's get started with EDA.", <<>>))
            /\ pc' = "inspect"
            /\ exitStatus' = exitStatus
       ELSE /\ df' = df
            /\ out' = out \o MissingFileLines
            /\ pc' = "exited"
            /\ exitStatus' = <<ExitDefault>>
  /\ UNCHANGED <<fileExists, fileRows, mutations, shown>>

(***************************************************************************)
(* Part 2: the inspector.  df.duplicated() marks a row that equals an      *)
(* earlier row in every column; drop_duplicates keeps the unmarked rows in *)
(* their order.  The table is written only when the count is positive.     *)
(***************************************************************************)
HeadRows == 5

Columns == {"age", "poutcome", "y"}

NumColumns == Cardinality(Columns)

Min(a, b) == IF a < b THEN a ELSE b

Duplicated(t) == [i \in 1..Len(t) |-> \E j \in 1..(i - 1) : t[j] = t[i]]

DuplicatedSum(t) == Cardinality({i \in 1..Len(t) : Duplicated(t)[i]})

RECURSIVE KeepUnmarked(_, _)
KeepUnmarked(t, mark) ==
  IF t = <<>> THEN <<>>
  ELSE LET front == KeepUnmarked(SubSeq(t, 1, Len(t) - 1), SubSeq(mark, 1, Len(t) - 1))
       IN  IF mark[Len(t)] THEN front ELSE Append(front, t[Len(t)])

DuplicatedKeepLast(t) == [i \in 1..Len(t) |-> \E j \in (i + 1)..Len(t) : t[j] = t[i]]

DropDuplicatesKeepLast(t) == KeepUnmarked(t, DuplicatedKeepLast(t))

DropDuplicatesNotInPlace(t) == t

DropDuplicates(t) == KeepUnmarked(t, Duplicated(t))

InspectLines(t) ==
  << Emit("## Initial Data Inspection", <<>>),
     Emit("First 5 rows of the dataset:", <<>>),
     Emit("df.head()", <<ToString(Min(HeadRows, Len(t)))>>),
     Emit("Dataset has {} rows and {} columns.", <<ToString(Len(t)), ToString(NumColumns)>>),
     Emit("DataFrame Info:", <<>>),
     Emit("df.info()", <<ToString(Len(t))>>),
     Emit("Descriptive Statistics for Numerical Columns:", <<>>),
     Emit("df.describe()", <<"age">>),
     Emit("Descriptive Statistics for Categorical Columns:", <<>>),
     Emit("df.describe(include='object')", <<"poutcome", "y">>),
     Emit("Number of duplicate rows: {}", <<ToString(DuplicatedSum(t))>>) >>

Inspect ==
  /\ pc = "inspect"
  /\ IF DuplicatedSum(df) > 0
       THEN /\ df' = DropDuplicates(df)
            /\ mutations' = Append(mutations, "drop_duplicates")
            /\ out' = (out \o InspectLines(df)) \o <<Emit("Duplicate rows have been removed.", <<>>)>>
       ELSE /\ df' = df
            /\ mutations' = mutations
            /\ out' = out \o InspectLines(df)
  /\ pc' = "clean"
  /\ UNCHANGED <<fileExists, fileRows, shown, exitStatus>>

(***************************************************************************)
(* Part 3: the cleaner.  Series.replace swaps one value and passes every   *)
(* other through; Series.map with a dict is a lookup in which a key that   *)
(* is absent yields NaN.                                                   *)
(***************************************************************************)
ReplacePoutcomeNotAssigned(v) == v

ReplacePoutcome(v) == IF v = "nonexistent" THEN "no_previous_campaign" ELSE v

MapYKeep(v) ==
  IF v = Str("yes") THEN Num(1)
  ELSE IF v = Str("no") THEN Num(0)
  ELSE v

MapYIsYes(v) == IF v = Str("yes") THEN Num(1) ELSE Num(0)

MapY(v) ==
  IF v = Str("yes") THEN Num(1)
  ELSE IF v = Str("no") THEN Num(0)
  ELSE NaN

ReplacePoutcomeColumn(t) == [i \in 1..Len(t) |-> [t[i] EXCEPT !.poutcome = ReplacePoutcome(@)]]

MapYColumn(t) == [i \in 1..Len(t) |-> [t[i] EXCEPT !.y = MapY(@)]]

Clean ==
  /\ pc = "clean"
  /\ df' = MapYColumn(ReplacePoutcomeColumn(df))
  /\ mutations' = (mutations \o <<"replace_poutcome", "map_y">>)
  /\ out' = (out \o << Emit("## Data Cleaning and Preprocessing", <<>>),
                       Emit("Target variable 'y' has been mapped to 1 (yes) and 0 (no).", <<>>) >>)
  /\ pc' = "plot"
  /\ UNCHANGED <<fileExists, fileRows, shown, exitStatus>>

(***************************************************************************)
(* Parts 4 and 5: the visualizer.  Seven figures are built and shown one   *)
(* after the other; plt.show() returns before the next figure is built.    *)
(* The section headings are printed before the first and the fourth.       *)
(***************************************************************************)
TargetCount == Figure("Distribution of the Target Variable (Subscribed to Term Deposit)", <<"countplot", "y">>)

AgeHist == Figure("Distribution of Age", <<"histplot", "age">>)

JobCount == Figure("Distribution of Job Categories", <<"countplot", "job">>)

AgeBox == Figure("Age Distribution by Subscription Status", <<"boxplot", "y", "age">>)

JobByTarget == Figure("Subscription Status by Job Category", <<"countplot", "job", "y">>)

Heatmap == Figure("Correlation Heatmap of Numerical Features", <<"heatmap", "numerical_cols">>)

DurationBox == Figure("Call Duration by Subscription Status", <<"boxplot", "y", "duration">>)

ChartsSwapped == <<TargetCount, AgeHist, AgeBox, JobCount, JobByTarget, Heatmap, DurationBox>>

Charts == <<TargetCount, AgeHist, JobCount, AgeBox, JobByTarget, Heatmap, DurationBox>>

NumCharts == Len(Charts)

Chart(k) == Charts[k]

UnivariateLines ==
  << Emit("## Univariate Analysis", <<>>),
     Emit("Visualizing the distribution of key variables.", <<>>) >>

BivariateLines ==
  << Emit("## Bivariate and Multivariate Analysis", <<>>),
     Emit("Exploring relationships between variables.", <<>>) >>

SectionLines(k) ==
  IF k = 1 THEN UnivariateLines
  ELSE IF k = 4 THEN BivariateLines
  ELSE <<>>

DropNa(t) == SelectSeq(t, LAMBDA r : r.y # NaN)

ShowDropNa ==
  /\ pc = "plot"
  /\ shown < NumCharts
  /\ df' = DropNa(df)
  /\ out' = (out \o SectionLines(shown + 1)) \o <<Chart(shown + 1)>>
  /\ shown' = shown + 1
  /\ pc' = IF shown + 1 = NumCharts THEN "report" ELSE "plot"
  /\ UNCHANGED <<fileExists, fileRows, mutations, exitStatus>>

Show ==
  /\ pc = "plot"
  /\ shown < NumCharts
  /\ out' = (out \o SectionLines(shown + 1)) \o <<Chart(shown + 1)>>
  /\ shown' = shown + 1
  /\ pc' = IF shown + 1 = NumCharts THEN "report" ELSE "plot"
  /\ UNCHANGED <<fileExists, fileRows, df, mutations, exitStatus>>

(***************************************************************************)
(* Part 6: the reporter.  value_counts() counts the rows of each value of  *)
(* y that is not NaN, and [1] looks the label 1 up in that result: a label *)
(* that is absent raises KeyError, which nothing catches.  mean() averages *)
(* the values that are not NaN.  The percentage is formatted with .2f.     *)
(***************************************************************************)
CountOf(t, v) == Cardinality({i \in 1..Len(t) : t[i].y = v})

NotNaCount(t) == Cardinality({i \in 1..Len(t) : t[i].y # NaN})

RoundHalfEven(num, den) ==
  LET q == num \div den
      r == num % den
  IN  IF 2 * r > den THEN q + 1
      ELSE IF 2 * r < den THEN q
      ELSE IF q % 2 = 0 THEN q ELSE q + 1

TwoDigits(n) == IF n < 10 THEN "0" \o ToString(n) ELSE ToString(n)

Format2f(num, den) ==
  LET h == RoundHalfEven(num * 10000, den)
  IN  (ToString(h \div 100) \o ".") \o TwoDigits(h % 100)

HeaderLines ==
  << Emit("## Key Insights from EDA", <<>>),
     Emit("Based on the analysis, here are some key findings:", <<>>) >>

Statement1(t) ==
  Emit("1. A total of {} clients subscribed to the term deposit, which is about {}% of the dataset.",
       <<ToString(CountOf(t, Num(1))), Format2f(CountOf(t, Num(1)), NotNaCount(t))>>)

StaticStatements ==
  << Emit("2. The average age of subscribed clients is slightly higher than non-subscribed clients.", <<>>),
     Emit("3. Job categories like 'student' and 'retired' have a higher subscription rate relative to their total numbers.", <<>>),
     Emit("4. There's a strong positive correlation between 'euribor3m' and 'emp.var.rate', which suggests they are related economic indicators. This can be important for feature selection.", <<>>),
     Emit("5. The 'duration' of the last contact is a highly predictive feature for the outcome. Clients with longer calls were much more likely to subscribe. However, this is for analysis only and should not be used in a predictive model as it's a look-ahead variable.", <<>>) >>

Report ==
  /\ pc = "report"
  /\ IF CountOf(df, Num(1)) = 0
       THEN /\ out' = out \o HeaderLines
            /\ pc' = "crashed"
            /\ exitStatus' = <<ExitUncaught>>
       ELSE /\ out' = ((out \o HeaderLines) \o <<Statement1(df)>>) \o StaticStatements
            /\ pc' = "done"
            /\ exitStatus' = <<ExitNormal>>
  /\ UNCHANGED <<fileExists, fileRows, df, mutations, shown>>

Init ==
  /\ fileExists \in BOOLEAN
  /\ fileRows \in Tables
  /\ pc = "load"
  /\ df = <<>>
  /\ out = <<>>
  /\ mutations = <<>>
  /\ shown = 0
  /\ exitStatus = <<>>

Next ==
  \/ Load
  \/ Inspect
  \/ Clean
  \/ Show
  \/ Report

Spec == Init /\ [][Next]_vars

TypeOK ==
  /\ fileExists \in BOOLEAN
  /\ fileRows \in Tables
  /\ pc \in {"load", "inspect", "clean", "plot", "report", "done", "crashed", "exited"}
  /\ shown \in 0..NumCharts
  /\ Len(df) <= MaxRows
  /\ Len(exitStatus) <= 1

(***************************************************************************)
(* The y-mapping on its own: the statement of line 63 applied repeatedly   *)
(* to a loaded table.                                                      *)
(***************************************************************************)
MaxApplications == 3

InitMap ==
  /\ fileExists = TRUE
  /\ fileRows \in Tables
  /\ pc = "map"
  /\ df = fileRows
  /\ out = <<>>
  /\ mutations = <<>>
  /\ shown = 0
  /\ exitStatus = <<>>

ApplyMapY ==
  /\ pc = "map"
  /\ Len(mutations) < MaxApplications
  /\ df' = MapYColumn(df)
  /\ mutations' = Append(mutations, "map_y")
  /\ UNCHANGED <<fileExists, fileRows, pc, out, shown, exitStatus>>

NextMap == ApplyMapY

SpecMap == InitMap /\ [][NextMap]_vars

(***************************************************************************)
(* Properties.                                                             *)
(***************************************************************************)
Range(f) == {f[i] : i \in DOMAIN f}

AfterCleaner == pc \in {"plot", "report", "done", "crashed"}

\* C1: when the input file is absent, the run prints the two diagnostic
\* lines and ends at once: nothing else is printed, no figure is shown and
\* the table is neither created nor mutated.
MissingFileStops ==
  (~fileExists /\ pc # "load") =>
      /\ pc = "exited"
      /\ out = MissingFileLines
      /\ \E i \in 1..Len(out) : out[i].text = "Link: https://archive.ics.uci.edu/ml/machine-learning-databases/00222/bank-additional.zip"
      /\ Figures(out) = <<>>
      /\ df = <<>>
      /\ mutations = <<>>
      /\ shown = 0

MissingFileExited == ~fileExists /\ pc = "exited" /\ Len(out) = 2 /\ exitStatus # <<>>

\* C2: the exit status of a run that ends because the file is missing
\* differs from the exit status of a run that completes normally.
MissingFileStatusDistinct == (pc = "exited") => (exitStatus # <<ExitNormal>>)

\* C3: after the inspector the table holds, for each group of identical
\* input rows, only the first occurrence, in input order; its length is the
\* input length minus the number of rows that repeat an earlier row; an
\* input without duplicates is not mutated.
FirstIndex(t, r) == CHOOSE i \in 1..Len(t) : t[i] = r /\ \A j \in 1..(i - 1) : t[j] # r

Repeats(t) == {i \in 1..Len(t) : \E j \in 1..Len(t) : j < i /\ t[j] = t[i]}

InspectorDedup ==
  (pc = "clean") =>
      /\ Len(df) = Len(fileRows) - Cardinality(Repeats(fileRows))
      /\ Range(df) = Range(fileRows)
      /\ \A p, q \in 1..Len(df) : p < q =>
            /\ df[p] # df[q]
            /\ FirstIndex(fileRows, df[p]) < FirstIndex(fileRows, df[q])
      /\ (Repeats(fileRows) = {}) => (df = fileRows /\ mutations = <<>>)

InspectorDedupActed ==
  /\ pc = "clean"
  /\ Len(fileRows) = 3
  /\ Len(df) = 2
  /\ fileRows[1] = fileRows[3]
  /\ mutations = <<"drop_duplicates">>

\* C4: the cleaner maps y 'yes' to 1, 'no' to 0 and any other value to the
\* missing marker without raising, the run goes on to the visualizer, and
\* from then on every y is 0, 1 or missing and never a string.
CleanerMapsY ==
  /\ [][(pc = "clean") =>
          /\ pc' = "plot"
          /\ Len(df') = Len(df)
          /\ \A i \in 1..Len(df) :
                /\ (df[i].y = Str("yes")) => (df'[i].y = Num(1))
                /\ (df[i].y = Str("no")) => (df'[i].y = Num(0))
                /\ (df[i].y \notin {Str("yes"), Str("no")}) => (df'[i].y = NaN)]_vars
  /\ [](AfterCleaner => \A i \in 1..Len(df) : df[i].y \in {Num(0), Num(1), NaN} /\ df[i].y.kind # "str")

CleanerMappedY ==
  /\ pc = "plot"
  /\ shown = 0
  /\ \E i, j, k \in 1..Len(df) : df[i].y = Num(1) /\ df[j].y = Num(0) /\ df[k].y = NaN

\* C5: the cleaner replaces every poutcome 'nonexistent' by
\* 'no_previous_campaign' and leaves every other poutcome, the number and
\* order of rows and the other columns unchanged; afterwards no row has
\* poutcome 'nonexistent'.
CleanerReplacesPoutcome ==
  /\ [][(pc = "clean") =>
          /\ Len(df') = Len(df)
          /\ \A i \in 1..Len(df) :
                /\ (df[i].poutcome = "nonexistent") => (df'[i].poutcome = "no_previous_campaign")
                /\ (df[i].poutcome # "nonexistent") => (df'[i].poutcome = df[i].poutcome)
                /\ df'[i].age = df[i].age]_vars
  /\ [](AfterCleaner => \A i \in 1..Len(df) : df[i].poutcome # "nonexistent")

CleanerReplacedPoutcome ==
  /\ pc = "plot"
  /\ "drop_duplicates" \notin Range(mutations)
  /\ \E i, j \in 1..Len(df) :
        /\ fileRows[i].poutcome = "nonexistent" /\ df[i].poutcome = "no_previous_campaign"
        /\ fileRows[j].poutcome = "success" /\ df[j].poutcome = "success"

\* C6: for every cleaned table the first report statement gives the number
\* of rows with y = 1 and that number as a percentage of the rows of the
\* table, with two decimals; also when no row has y = 1 and when some rows
\* have a missing y.
Positives(t) == Cardinality({i \in 1..Len(t) : t[i].y = Num(1)})

ReportsCountAndPercent ==
  (pc \in {"done", "crashed"}) =>
      \E i \in 1..Len(out) :
          /\ out[i].kind = "print"
          /\ out[i].args = <<ToString(Positives(df)), Format2f(Positives(df), Len(df))>>

\* C7: in a run where the file loads the stages run in the order loader,
\* inspector, cleaner, visualizer, reporter, each once; duplicates are
\* removed at most once and before the recodings; the seven figures are
\* shown in the fixed order and all of them before the report.
StageMarks ==
  << "Dataset loaded successfully! Let's get started with EDA.",
     "## Initial Data Inspection",
     "## Data Cleaning and Preprocessing",
     "## Univariate Analysis",
     "## Bivariate and Multivariate Analysis",
     "## Key Insights from EDA" >>

IsStageMark(o) == o.kind = "print" /\ o.text \in Range(StageMarks)

FigureOrder ==
  << <<"countplot", "y">>, <<"histplot", "age">>, <<"countplot", "job">>, <<"boxplot", "y", "age">>,
     <<"countplot", "job", "y">>, <<"heatmap", "numerical_cols">>, <<"boxplot", "y", "duration">> >>

IsPrefix(a, b) == Len(a) <= Len(b) /\ \A i \in 1..Len(a) : a[i] = b[i]

PipelineOrder ==
  fileExists =>
      /\ IsPrefix([i \in 1..Len(SelectSeq(out, IsStageMark)) |-> SelectSeq(out, IsStageMark)[i].text], StageMarks)
      /\ IsPrefix([i \in 1..Len(Figures(out)) |-> Figures(out)[i].args], FigureOrder)
      /\ mutations \in {<<>>, <<"drop_duplicates">>, <<"replace_poutcome", "map_y">>,
                        <<"drop_duplicates", "replace_poutcome", "map_y">>}
      /\ \A i \in 1..Len(out) :
            (out[i].text = "## Key Insights from EDA") =>
                Len(Figures(SubSeq(out, 1, i))) = 7
      /\ \A i \in 1..Len(out) :
            (out[i].kind = "figure") =>
                Len(SelectSeq(SubSeq(out, 1, i), IsStageMark)) \in {4, 5}
      /\ (pc \in {"done", "crashed"}) =>
            (Len(SelectSeq(out, IsStageMark)) = 6 /\ Len(Figures(out)) = 7 /\ Len(mutations) >= 2)

PipelineCompleted ==
  /\ pc = "done"
  /\ Len(Figures(out)) = 7
  /\ mutations = <<"drop_duplicates", "replace_poutcome", "map_y">>

\* C8 (as stated): applying the y-mapping a second time leaves every y that
\* is 0 or 1 after the first application unchanged.
SecondMapKeepsBinary ==
  [][(Len(mutations) = 1) =>
        \A i \in 1..Len(df) : (df[i].y \in {Num(0), Num(1)}) => (df'[i].y = df[i].y)]_vars

\* C8 (amended): applying the y-mapping a second time is a no-op only for
\* the values that are already missing; every y that is 0 or 1 after the
\* first application is missing after the second.
SecondMapYieldsMissing ==
  [][(Len(mutations) = 1) =>
        /\ Len(df') = Len(df)
        /\ \A i \in 1..Len(df) :
              /\ (df[i].y \in {Num(0), Num(1)}) => (df'[i].y = NaN)
              /\ (df[i].y = NaN) => (df'[i].y = NaN)]_vars

SecondMapApplied ==
  /\ pc = "map"
  /\ Len(mutations) = 2
  /\ \E i, j \in 1..Len(df) :
        /\ fileRows[i].y = Str("yes") /\ df[i].y = NaN
        /\ fileRows[j].y = Str("unknown") /\ df[j].y = NaN

\* C9: from the end of the cleaner until the process ends no step changes
\* the table: every figure and the report read the same rows.
TableFrozenAfterCleaner == [][AfterCleaner => (df' = df)]_vars

TableReadAfterCleaner ==
  /\ pc = "done"
  /\ shown = 7
  /\ df # fileRows
  /\ \E i \in 1..Len(df) : df[i].y = NaN

\* C10 (as stated): the table read by the visualizer and the reporter never
\* holds two rows that are identical in every column.
CleanedRowsUnique ==
  AfterCleaner => \A i, j \in 1..Len(df) : (i < j) => (df[i] # df[j])

\* C10 (amended): two rows of the table read by the visualizer and the
\* reporter are identical in every column only if their poutcome is
\* 'no_previous_campaign' or their y is missing, the values onto which the
\* recodings merge distinct inputs.
CleanedRowsUniqueUnlessMerged ==
  AfterCleaner =>
      \A i, j \in 1..Len(df) :
          (i < j /\ df[i] = df[j]) => (df[i].poutcome = "no_previous_campaign" \/ df[i].y = NaN)

CleanedAfterDedup ==
  /\ pc = "plot"
  /\ mutations = <<"drop_duplicates", "replace_poutcome", "map_y">>
  /\ Len(df) = 2
  /\ df[1] # df[2]
  /\ df[1].poutcome = "success"
  /\ df[1].y = Num(1)
====
